---- MODULE Spec2Model ----
(***************************************************************************)
(* Africa risk score analysis: the fetch -> filter -> monthly-to-yearly    *)
(* reduction -> classification -> country summary -> Excel export pipeline *)
(* of africa_risk_score_analysis.py, and the loader of                     *)
(* africa_risk_choropleth.py that reads the exported workbook.             *)
(*                                                                         *)
(* Numbers.  A score is a real number with at most two decimals and every  *)
(* quotient by 12 of such a number is needed exactly, so a number x is     *)
(* held as the integer x * Unit with Unit = 1200: 0.01 is 12 units, 0.1 is *)
(* 120 units and x / 12 is an integer number of units.  Python floats are  *)
(* modelled as these exact rationals.                                      *)
(*                                                                         *)
(* JSON values.  A value that may be a number, None or NaN is a record     *)
(* [kind, val]; a key that is missing from a dict is missing from the      *)
(* DOMAIN of the function that models the dict.                            *)
(***************************************************************************)
EXTENDS Integers, Sequences, FiniteSets, TLC

VARIABLES
    pc,                \* position of main() of the analysis script
    requests,          \* the GET requests sent to the risk-score API, in order
    sub_saharan_results, \* fetch_all_africa_data: sub_saharan_results
    all_results,       \* main: all_results
    filtered_results,  \* main: filtered_results
    detailed_df,       \* main: detailed_df = pd.DataFrame(processed_data)
    summary_df,        \* main: summary_df
    stages,            \* history: the pipeline stages completed so far, in order
    excel,             \* the file africa_risk_scores_analysis.xlsx
    viz_pc,            \* position of the choropleth script
    viz_df,            \* choropleth script: viz_df
    input,             \* argument of the function under study (function specifications)
    output             \* its result

vars == <<pc, requests, sub_saharan_results, all_results, filtered_results,
          detailed_df, summary_df, stages, excel, viz_pc, viz_df, input, output>>

mainVars == <<pc, requests, sub_saharan_results, all_results, filtered_results,
              detailed_df, summary_df>>

pipelineVars == <<mainVars, stages, excel, viz_pc, viz_df>>

-----------------------------------------------------------------------------
(* Numbers and JSON values *)

Unit == 12 * 100
Tenth == Unit \div 10
Hundredth == Unit \div 100

Num(n) == [kind |-> "num", val |-> n]
None == [kind |-> "None", val |-> 0]
NaN == [kind |-> "NaN", val |-> 0]

IsNum(x) == x.kind = "num"

\* Python truthiness of a JSON value: None and 0 are falsy (NaN is truthy).
Truthy(x) == ~(x.kind = "None") /\ ~(x.kind = "num" /\ x.val = 0)

-----------------------------------------------------------------------------
(* Bounds *)

MaxScoreSteps == 210   \* categorize is tried on scores -0.10, -0.05, ..., MaxScoreSteps * 0.05

ScoreStep == Unit \div 20

ScoreSet == {Num(k * ScoreStep) : k \in -2..MaxScoreSteps} \cup {None, NaN}

MaxFilterLen == 3      \* longest list handed to filter_by_hazard_type on its own

MaxProcessLen == 1     \* longest list handed to process_risk_data on its own

MaxRegionLen == 2      \* longest "results" list one region's response carries

MaxSummaryLen == 3     \* most rows of a detailed table handed to create_summary_by_country

MaxListLen == 3        \* longest list in the repeated calls of process_risk_data

MaxCalls == 2          \* calls of process_risk_data on the same list

\* All sequences over S of length at most n.
SeqUpTo(S, n) == UNION {[1..k -> S] : k \in 0..n}

-----------------------------------------------------------------------------
(* API records: a dict of the "results" list of the risk-score API *)

NORTH_AFRICA_COUNTRIES == <<"Morocco", "Tunisia", "Algeria", "Libya", "Egypt">>

INCLUDED_HAZARDS == <<"Drought", "Flood", "Wildfire">>

months == <<"january", "february", "march", "april", "may", "june",
            "july", "august", "september", "october", "november", "december">>

\* x in a Python list
InList(x, list) == \E i \in DOMAIN list : list[i] = x

\* dict.get(key, default)
Get(record, key, default) == IF key \in DOMAIN record THEN record[key] ELSE default

Kenya == [name |-> "Kenya", iso3 |-> "ken"]
Chad == [name |-> "Chad", iso3 |-> "tcd"]
Egypt == [name |-> "Egypt", iso3 |-> "egy"]
Iraq == [name |-> "Iraq", iso3 |-> "irq"]

HazardNames == {"Drought", "Flood", "Wildfire", "Cyclone"}

\* The same score in every month that is present.
FlatMonths(v) == [m \in {months[i] : i \in 1..12} |-> v]

\* An API record: the keys every record carries, the monthly keys in
\* monthly and, in optional, the keys that may be absent.
APIRecord(c, h, monthly, optional) ==
    [country_details |-> c, hazard_type_display |-> h] @@ monthly @@ optional

-----------------------------------------------------------------------------
(* The two classification schemes *)

\* Variant with inclusive upper thresholds (<= for <): a boundary score falls
\* in the lower tier.
categorize_go_platform_le(score) ==
    IF score.kind = "None" \/ score.kind = "NaN" THEN <<0, "No Data">>
    ELSE IF score.val <= 20 * Tenth THEN <<1, "Very Low">>
    ELSE IF score.val <= 35 * Tenth THEN <<2, "Low">>
    ELSE IF score.val <= 50 * Tenth THEN <<3, "Medium">>
    ELSE IF score.val <= 65 * Tenth THEN <<4, "High">>
    ELSE <<5, "Very High">>

categorize_go_platform(score) ==
    IF score.kind = "None" \/ score.kind = "NaN" THEN <<0, "No Data">>
    ELSE IF score.val < 20 * Tenth THEN <<1, "Very Low">>
    ELSE IF score.val < 35 * Tenth THEN <<2, "Low">>
    ELSE IF score.val < 50 * Tenth THEN <<3, "Medium">>
    ELSE IF score.val < 65 * Tenth THEN <<4, "High">>
    ELSE <<5, "Very High">>

\* Variant whose Very High tier starts at 6.0.
categorize_inform_shifted(score) ==
    IF score.kind = "None" \/ score.kind = "NaN" THEN "No Data"
    ELSE IF score.val < 20 * Tenth THEN "Very Low"
    ELSE IF score.val < 35 * Tenth THEN "Low"
    ELSE IF score.val < 50 * Tenth THEN "Medium"
    ELSE IF score.val < 60 * Tenth THEN "High"
    ELSE "Very High"

categorize_inform(score) ==
    IF score.kind = "None" \/ score.kind = "NaN" THEN "No Data"
    ELSE IF score.val < 20 * Tenth THEN "Very Low"
    ELSE IF score.val < 35 * Tenth THEN "Low"
    ELSE IF score.val < 50 * Tenth THEN "Medium"
    ELSE IF score.val < 65 * Tenth THEN "High"
    ELSE "Very High"

-----------------------------------------------------------------------------
(* A variable not assigned yet, and one holding v *)

Unset == [set |-> FALSE]
Ret(v) == [set |-> TRUE, value |-> v]

NoFile == [exists |-> FALSE, Country_Summary |-> <<>>, Detailed_Monthly |-> <<>>]

\* Neither script has started and the workbook does not exist.
PipelineIdle ==
    /\ pc = "start"
    /\ requests = <<>>
    /\ sub_saharan_results = Unset
    /\ all_results = Unset
    /\ filtered_results = Unset
    /\ detailed_df = Unset
    /\ summary_df = Unset
    /\ stages = <<>>
    /\ excel = NoFile
    /\ viz_pc = "start"
    /\ viz_df = Unset

-----------------------------------------------------------------------------
(* SpecCategorize: both categorizers applied to one score *)

InitCategorize ==
    /\ PipelineIdle
    /\ input \in {[score |-> s] : s \in ScoreSet}
    /\ output = [go |-> Unset, inform |-> Unset]

CallCategorizeGo ==
    /\ ~output.go.set
    /\ output' = [output EXCEPT !.go = Ret(categorize_go_platform(input.score))]
    /\ UNCHANGED <<input, pipelineVars>>

CallCategorizeInform ==
    /\ ~output.inform.set
    /\ output' = [output EXCEPT !.inform = Ret(categorize_inform(input.score))]
    /\ UNCHANGED <<input, pipelineVars>>

NextCategorize == CallCategorizeGo \/ CallCategorizeInform

SpecCategorize == InitCategorize /\ [][NextCategorize]_vars

\* C1: categorize_go_platform follows the threshold table with half-open
\* ranges: a numeric score s < 2.0 gives (1, Very Low), 2.0 <= s < 3.5 gives
\* (2, Low), 3.5 <= s < 5.0 gives (3, Medium), 5.0 <= s < 6.5 gives (4, High)
\* and s >= 6.5 gives (5, Very High); a boundary score is in the higher tier.
C1_ThresholdTable ==
    (output.go.set /\ IsNum(input.score)) =>
        LET s == input.score.val
            r == output.go.value
        IN  /\ (s < 2 * Unit) => r = <<1, "Very Low">>
            /\ (2 * Unit <= s /\ 2 * s < 7 * Unit) => r = <<2, "Low">>
            /\ (7 * Unit <= 2 * s /\ s < 5 * Unit) => r = <<3, "Medium">>
            /\ (5 * Unit <= s /\ 2 * s < 13 * Unit) => r = <<4, "High">>
            /\ (13 * Unit <= 2 * s) => r = <<5, "Very High">>

\* C1 witness: the categorizer has returned Low for the boundary score 2.0.
C1_Witness ==
    /\ output.go.set
    /\ input.score = Num(2 * Unit)
    /\ output.go.value = <<2, "Low">>

\* C2: for every score, None and NaN included, categorize_inform returns the
\* category name that categorize_go_platform returns.
C2_SameRanges ==
    (output.go.set /\ output.inform.set) =>
        output.inform.value = output.go.value[2]

\* C2 witness: both categorizers have answered for the score 6.0, above the
\* High threshold and below the Very High one.
C2_Witness ==
    /\ output.go.set
    /\ output.inform.set
    /\ input.score = Num(6 * Unit)
    /\ output.inform.value = "High"

-----------------------------------------------------------------------------
(* filter_by_hazard_type *)

\* Variant that always filters on INCLUDED_HAZARDS, whatever hazard_types is.
filter_by_hazard_type_ignoring_argument(results, hazard_types) ==
    SelectSeq(results, LAMBDA record : InList(record.hazard_type_display, INCLUDED_HAZARDS))

filter_by_hazard_type(results, hazard_types) ==
    LET types == IF hazard_types.is_none THEN INCLUDED_HAZARDS ELSE hazard_types.list
    IN  SelectSeq(results, LAMBDA record : InList(record.hazard_type_display, types))

NoneArg == [is_none |-> TRUE, list |-> <<>>]
ListArg(l) == [is_none |-> FALSE, list |-> l]

(* SpecFilter: filter_by_hazard_type applied to one list and one hazard_types *)

FilterRecords ==
    {APIRecord(c, h, FlatMonths(Num(3 * Unit)), <<>>) : c \in {Kenya, Egypt}, h \in HazardNames}

HazardTypeArgs ==
    {NoneArg, ListArg(<<>>), ListArg(<<"Flood">>), ListArg(<<"Cyclone", "Drought">>)}

InitFilter ==
    /\ PipelineIdle
    /\ input \in {[results |-> r, hazard_types |-> t] :
                     r \in SeqUpTo(FilterRecords, MaxFilterLen), t \in HazardTypeArgs}
    /\ output = Unset

CallFilter ==
    /\ ~output.set
    /\ output' = Ret(filter_by_hazard_type(input.results, input.hazard_types))
    /\ UNCHANGED <<input, pipelineVars>>

NextFilter == CallFilter

SpecFilter == InitFilter /\ [][NextFilter]_vars

\* The hazard names the call keeps: hazard_types, or Drought, Flood and
\* Wildfire when hazard_types is None.
C10_Kept(t) == IF t.is_none THEN {"Drought", "Flood", "Wildfire"}
               ELSE {t.list[i] : i \in DOMAIN t.list}

\* The indices of the input records whose hazard_type_display is kept.
C10_Matching == {i \in DOMAIN input.results :
                    input.results[i].hazard_type_display \in C10_Kept(input.hazard_types)}

\* The k-th smallest matching index.
C10_Nth(k) == CHOOSE i \in C10_Matching : Cardinality({j \in C10_Matching : j < i}) = k - 1

\* C10: filter_by_hazard_type returns exactly the input records whose
\* hazard_type_display is in hazard_types (Drought, Flood, Wildfire when
\* hazard_types is None), each once, unaltered, in their original order.
C10_FilterExact ==
    output.set =>
        /\ Len(output.value) = Cardinality(C10_Matching)
        /\ \A k \in 1..Len(output.value) : output.value[k] = input.results[C10_Nth(k)]

\* C10 witness: with hazard_types None a Cyclone record between a Wildfire
\* and a Drought record was dropped and the other two kept in order.
C10_Witness ==
    /\ output.set
    /\ input.hazard_types.is_none
    /\ Len(input.results) = 3
    /\ input.results[1].hazard_type_display = "Wildfire"
    /\ input.results[2].hazard_type_display = "Cyclone"
    /\ input.results[3].hazard_type_display = "Drought"
    /\ output.value = <<input.results[1], input.results[3]>>

-----------------------------------------------------------------------------
(* process_risk_data *)

RECURSIVE SumSeq(_)
\* Python sum() of a list of numbers
SumSeq(s) == IF s = <<>> THEN 0 ELSE s[1] + SumSeq(Tail(s))

\* Python max() of a non-empty list of numbers
MaxSeq(s) == CHOOSE x \in {s[i] : i \in DOMAIN s} : \A i \in DOMAIN s : s[i] <= x

\* round(x, 2) of x >= 0.  A value halfway between two hundredths is not a
\* binary float: the float that stands for it lies on one side or the other,
\* so the result there is either neighbour, as tie says.
round2(x, tie) ==
    LET r == x % Hundredth
    IN  IF 2 * r < Hundredth THEN x - r
        ELSE IF 2 * r > Hundredth THEN x - r + Hundredth
        ELSE IF tie = "down" THEN x - r ELSE x - r + Hundredth

TieChoices == {"down", "up"}

\* str.upper() on the ISO3 codes of the records
upper(s) == CASE s = "ken" -> "KEN" [] s = "tcd" -> "TCD"
              [] s = "egy" -> "EGY" [] s = "irq" -> "IRQ" [] OTHER -> s

\* [record.get(month, 0) or 0 for month in months]
monthly_scores(record) ==
    [i \in 1..12 |->
        LET v == Get(record, months[i], Num(0))
        IN  IF Truthy(v) THEN v.val ELSE 0]

\* record.get('yearly_sum', sum(monthly_scores)): a JSON value, None when the
\* API sends null
yearly_sum(record) == Get(record, "yearly_sum", Num(SumSeq(monthly_scores(record))))

\* Variant that forgets the division by 12.
yearly_avg_undivided(ysum) == IF Truthy(ysum) THEN ysum.val ELSE 0

\* yearly_sum / 12 if yearly_sum else 0
yearly_avg(ysum) == IF Truthy(ysum) THEN ysum.val \div 12 ELSE 0

\* Variant that leaves December out of the maximum.
peak_month_score_skip_last(scores) ==
    IF scores = <<>> THEN 0 ELSE MaxSeq(SubSeq(scores, 1, Len(scores) - 1))

\* max(monthly_scores) if monthly_scores else 0
peak_month_score(scores) == IF scores = <<>> THEN 0 ELSE MaxSeq(scores)

\* Variant with the yearly average and the peak month exchanged.
classification_swapped(avg, peak) ==
    [GO_Category_Num |-> categorize_go_platform(Num(peak))[1],
     GO_Category |-> categorize_go_platform(Num(peak))[2],
     INFORM_Category |-> categorize_inform(Num(peak)),
     Peak_GO_Num |-> categorize_go_platform(Num(avg))[1],
     Peak_GO_Category |-> categorize_go_platform(Num(avg))[2],
     Peak_INFORM_Category |-> categorize_inform(Num(avg))]

\* STEP 4: both classifications of the yearly average and of the peak month
classification(avg, peak) ==
    [GO_Category_Num |-> categorize_go_platform(Num(avg))[1],
     GO_Category |-> categorize_go_platform(Num(avg))[2],
     INFORM_Category |-> categorize_inform(Num(avg)),
     Peak_GO_Num |-> categorize_go_platform(Num(peak))[1],
     Peak_GO_Category |-> categorize_go_platform(Num(peak))[2],
     Peak_INFORM_Category |-> categorize_inform(Num(peak))]

\* round(yearly_sum, 2) raises TypeError when the API sent yearly_sum: null
record_raises(record) == ~IsNum(yearly_sum(record))

\* One iteration of the loop of process_risk_data, for a record that does
\* not raise: the dict appended to processed_data.
process_record(record, tie) ==
    LET scores == monthly_scores(record)
        ysum == yearly_sum(record)
        avg == yearly_avg(ysum)
        peak == peak_month_score(scores)
    IN  [Country |-> record.country_details.name,
         ISO3 |-> upper(record.country_details.iso3),
         Hazard_Type |-> record.hazard_type_display,
         January |-> scores[1], February |-> scores[2], March |-> scores[3],
         April |-> scores[4], May |-> scores[5], June |-> scores[6],
         July |-> scores[7], August |-> scores[8], September |-> scores[9],
         October |-> scores[10], November |-> scores[11], December |-> scores[12],
         Yearly_Sum |-> round2(ysum.val, tie),
         Yearly_Average |-> round2(avg, tie),
         Peak_Month_Score |-> round2(peak, tie),
         LCC |-> Get(record, "lcc", Num(0)),
         Vulnerability |-> Get(record, "vulnerability", Num(0)),
         Population_Thousands |-> Get(record, "population_in_thousands", Num(0))]
        @@ classification(avg, peak)

Raised == [raised |-> TRUE, value |-> <<>>]
Returned(v) == [raised |-> FALSE, value |-> v]

\* Variant that returns the processed records in reverse order.
process_risk_data_reversed(results, ties) ==
    IF \E i \in DOMAIN results : record_raises(results[i]) THEN Raised
    ELSE Returned([i \in DOMAIN results |->
                      process_record(results[Len(results) + 1 - i],
                                     ties[Len(results) + 1 - i])])

\* process_risk_data(results); ties[i] says how the halfway cases of record i round
process_risk_data(results, ties) ==
    IF \E i \in DOMAIN results : record_raises(results[i]) THEN Raised
    ELSE Returned([i \in DOMAIN results |-> process_record(results[i], ties[i])])

(* SpecProcess: process_risk_data applied to one list of API records *)

\* Monthly keys: base in every month but month i, which holds v; the keys in
\* absent are missing from the dict.
MonthsWith(base, i, v, absent) ==
    [m \in {months[k] : k \in 1..12} \ absent |-> IF m = months[i] THEN v ELSE base]

ProcessMonths ==
    {MonthsWith(b, i, v, a) :
        b \in {None, Num(0), Num(16 * Tenth)},
        i \in {1, 12},
        v \in {None, Num(3 * Tenth), Num(20 * Tenth), Num(65 * Tenth)},
        a \in {{}, {"december"}, {months[k] : k \in 1..12}}}

\* yearly_sum: absent, null, 0, 23.95 (average 1.9958..., shown as 2.0) and
\* 0.3 (average 0.025, halfway between two hundredths)
ProcessOptional ==
    {<<>>} \cup {[yearly_sum |-> y] :
                    y \in {None, Num(0), Num(2395 * Hundredth), Num(3 * Tenth)}}

ProcessRecords ==
    {APIRecord(Kenya, "Flood", m, o) : m \in ProcessMonths, o \in ProcessOptional}

InitProcess ==
    /\ PipelineIdle
    /\ input \in {[results |-> r] : r \in SeqUpTo(ProcessRecords, MaxProcessLen) \ {<<>>}}
    /\ output = Unset

CallProcess ==
    /\ ~output.set
    /\ \E ties \in [DOMAIN input.results -> TieChoices] :
          output' = Ret(process_risk_data(input.results, ties))
    /\ UNCHANGED <<input, pipelineVars>>

NextProcess == CallProcess

SpecProcess == InitProcess /\ [][NextProcess]_vars

\* process_risk_data has returned a list
Processed == output.set /\ ~output.value.raised

\* The score of month m of an API record, a missing or None month counting 0.
MonthOrZero(record, m) ==
    IF m \in DOMAIN record /\ record[m].kind = "num" THEN record[m].val ELSE 0

\* The two-decimal values next to x (x itself when it has two decimals).
Roundings(x) ==
    {y \in {x - (x % Hundredth), x - (x % Hundredth) + Hundredth} :
        2 * y - 2 * x <= Hundredth /\ 2 * x - 2 * y <= Hundredth}

\* C3: in every record process_risk_data produces, the yearly average is the
\* record's yearly sum divided by 12, stored rounded to two decimals, and is
\* 0 when the yearly sum is 0.
C3_AverageIsSumOverTwelve ==
    Processed =>
        \A i \in DOMAIN output.value.value :
            LET o == output.value.value[i]
            IN  /\ o.Yearly_Average \in Roundings(o.Yearly_Sum \div 12)
                /\ (o.Yearly_Sum = 0 => o.Yearly_Average = 0)

\* C3 witness: a record with yearly sum 23.95 was processed and its yearly
\* average 1.9958... is stored as 2.0.
C3_Witness ==
    /\ Processed
    /\ output.value.value[1].Yearly_Sum = 2395 * Hundredth
    /\ output.value.value[1].Yearly_Average = 2 * Unit

\* C4: in every record process_risk_data produces, Yearly_Sum is the sum of
\* the record's 12 monthly scores, January through December.
C4_SumOfTwelveMonths ==
    Processed =>
        \A i \in DOMAIN output.value.value :
            output.value.value[i].Yearly_Sum =
                SumSeq([k \in 1..12 |-> MonthOrZero(input.results[i], months[k])])

\* C5: in every record process_risk_data produces, GO_Category_Num,
\* GO_Category and INFORM_Category are the categories of the record's yearly
\* average (yearly sum / 12, before it is rounded for storage) and
\* Peak_GO_Num, Peak_GO_Category and Peak_INFORM_Category those of its peak
\* month score; the yearly sum is not what is classified.
C5_ClassifiesAverageAndPeak ==
    Processed =>
        \A i \in DOMAIN output.value.value :
            LET o == output.value.value[i]
                avg == Num(o.Yearly_Sum \div 12)
                peak == Num(o.Peak_Month_Score)
            IN  /\ <<o.GO_Category_Num, o.GO_Category>> = categorize_go_platform(avg)
                /\ o.INFORM_Category = categorize_inform(avg)
                /\ <<o.Peak_GO_Num, o.Peak_GO_Category>> = categorize_go_platform(peak)
                /\ o.Peak_INFORM_Category = categorize_inform(peak)

\* C5 witness: yearly sum 24.1 (which alone would be Very High), average
\* 2.0083... classified Low, peak month 6.5 classified Very High.
C5_Witness ==
    /\ Processed
    /\ output.value.value[1].Yearly_Sum = 241 * Tenth
    /\ output.value.value[1].GO_Category = "Low"
    /\ output.value.value[1].INFORM_Category = "Low"
    /\ output.value.value[1].Peak_Month_Score = 65 * Tenth
    /\ output.value.value[1].Peak_GO_Num = 5
    /\ output.value.value[1].Peak_INFORM_Category = "Very High"

\* C6: in every record process_risk_data produces, Peak_Month_Score is the
\* maximum of the record's 12 monthly scores, a missing or None month
\* counting as 0.
C6_PeakIsMaximum ==
    Processed =>
        \A i \in DOMAIN output.value.value :
            LET peak == output.value.value[i].Peak_Month_Score
                rec == input.results[i]
            IN  /\ \E k \in 1..12 : peak = MonthOrZero(rec, months[k])
                /\ \A k \in 1..12 : MonthOrZero(rec, months[k]) <= peak

\* C6 witness: the peak 6.5 is in December, January to November are None.
C6_Witness ==
    /\ Processed
    /\ "january" \in DOMAIN input.results[1]
    /\ input.results[1]["january"] = None
    /\ "december" \in DOMAIN input.results[1]
    /\ input.results[1]["december"] = Num(65 * Tenth)
    /\ output.value.value[1].Peak_Month_Score = 65 * Tenth

-----------------------------------------------------------------------------
(* fetch_all_africa_data *)

\* Variant that applies the North Africa filter to both regions.
fetch_all_africa_data_filtering_both(sub_saharan, north_africa) ==
    SelectSeq(sub_saharan \o north_africa,
        LAMBDA record : InList(record.country_details.name, NORTH_AFRICA_COUNTRIES))

\* sub_saharan_results + filtered_north_africa
fetch_all_africa_data(sub_saharan, north_africa) ==
    sub_saharan \o SelectSeq(north_africa,
        LAMBDA record : InList(record.country_details.name, NORTH_AFRICA_COUNTRIES))

-----------------------------------------------------------------------------
(* create_summary_by_country *)

\* pd.DataFrame(processed_data): a None among the numbers of a column is NaN
NoneToNaN(x) == IF x.kind = "None" THEN NaN ELSE x

DataFrame(rows) ==
    [i \in DOMAIN rows |->
        [rows[i] EXCEPT !.LCC = NoneToNaN(@), !.Vulnerability = NoneToNaN(@),
                        !.Population_Thousands = NoneToNaN(@)]]

\* Variant without sorted(): the countries in the order unique() gives them,
\* that of their first row.
sorted_countries_first_seen(df) ==
    LET firsts == SelectSeq([i \in DOMAIN df |-> i],
                      LAMBDA i : \A j \in 1..(i - 1) : df[j].Country # df[i].Country)
    IN  [k \in DOMAIN firsts |-> df[firsts[k]].Country]

\* The country names of the records, in the order of Python's string sort
NamesInOrder == <<"Chad", "Egypt", "Iraq", "Kenya">>

\* sorted(df['Country'].unique())
sorted_countries(df) ==
    SelectSeq(NamesInOrder, LAMBDA n : \E i \in DOMAIN df : df[i].Country = n)

\* The six columns of one hazard: those of the country's first row of that
\* hazard, or the No Data defaults.
hazard_columns(country_data, hazard) ==
    LET hazard_row == SelectSeq(country_data, LAMBDA r : r.Hazard_Type = hazard)
    IN  IF hazard_row # <<>>
        THEN [Sum |-> hazard_row[1].Yearly_Sum, Avg |-> hazard_row[1].Yearly_Average,
              Peak |-> hazard_row[1].Peak_Month_Score,
              GO_Num |-> hazard_row[1].GO_Category_Num,
              GO_Cat |-> hazard_row[1].GO_Category,
              INFORM |-> hazard_row[1].INFORM_Category]
        ELSE [Sum |-> 0, Avg |-> 0, Peak |-> 0, GO_Num |-> 0,
              GO_Cat |-> "No Data", INFORM |-> "No Data"]

\* Variant that divides by the number of hazards the country has data for.
total_avg_of_present(hazard_avgs) ==
    LET present == SelectSeq(hazard_avgs, LAMBDA a : a # 0)
    IN  IF present = <<>> THEN 0 ELSE SumSeq(hazard_avgs) \div Len(present)

\* total_avg = sum(hazard_avgs) / len(INCLUDED_HAZARDS)
total_avg(hazard_avgs) == SumSeq(hazard_avgs) \div Len(INCLUDED_HAZARDS)

\* One pass of the loop over the countries: the row of one country.  The
\* three averages are whole hundredths, so their third is a whole number of
\* units that is never halfway between two hundredths.
summary_row(df, country) ==
    LET country_data == SelectSeq(df, LAMBDA r : r.Country = country)
        d == hazard_columns(country_data, INCLUDED_HAZARDS[1])
        f == hazard_columns(country_data, INCLUDED_HAZARDS[2])
        w == hazard_columns(country_data, INCLUDED_HAZARDS[3])
        overall == total_avg(<<d.Avg, f.Avg, w.Avg>>)
    IN  [Country |-> country,
         ISO3 |-> country_data[1].ISO3,
         Population_Thousands |-> country_data[1].Population_Thousands,
         LCC |-> country_data[1].LCC,
         Vulnerability |-> country_data[1].Vulnerability,
         Drought_Sum |-> d.Sum, Drought_Avg |-> d.Avg, Drought_Peak |-> d.Peak,
         Drought_GO_Num |-> d.GO_Num, Drought_GO_Cat |-> d.GO_Cat,
         Drought_INFORM |-> d.INFORM,
         Flood_Sum |-> f.Sum, Flood_Avg |-> f.Avg, Flood_Peak |-> f.Peak,
         Flood_GO_Num |-> f.GO_Num, Flood_GO_Cat |-> f.GO_Cat,
         Flood_INFORM |-> f.INFORM,
         Wildfire_Sum |-> w.Sum, Wildfire_Avg |-> w.Avg, Wildfire_Peak |-> w.Peak,
         Wildfire_GO_Num |-> w.GO_Num, Wildfire_GO_Cat |-> w.GO_Cat,
         Wildfire_INFORM |-> w.INFORM,
         Overall_Avg |-> round2(overall, "down"),
         Overall_GO_Num |-> categorize_go_platform(Num(overall))[1],
         Overall_GO_Cat |-> categorize_go_platform(Num(overall))[2],
         Overall_INFORM |-> categorize_inform(Num(overall))]

\* create_summary_by_country(df), for a df that has a Country column
create_summary_by_country(df) ==
    LET countries == sorted_countries(df)
    IN  [k \in DOMAIN countries |-> summary_row(df, countries[k])]

-----------------------------------------------------------------------------
(* load_and_normalize_data *)

Inf == [kind |-> "inf", val |-> 0]

\* np.sqrt of a population that is a perfect square
sqrt(n) == CHOOSE r \in 0..n : r * r = n

\* (avg / Pop_Sqrt).round(4), in ten-thousandths: avg is in units and pop a
\* plain number of thousands.  NaN for a NaN population or 0 / 0, inf for a
\* positive average over population 0.
normalized(avg, pop, tie) ==
    IF ~IsNum(pop) THEN NaN
    ELSE IF pop.val = 0 THEN (IF avg = 0 THEN NaN ELSE Inf)
    ELSE LET num == avg * 10000
             den == Unit * sqrt(pop.val)
             q == num \div den
             r == num % den
         IN  IF 2 * r < den THEN Num(q)
             ELSE IF 2 * r > den THEN Num(q + 1)
             ELSE IF tie = "down" THEN Num(q) ELSE Num(q + 1)

\* load_and_normalize_data on the rows of the Country_Summary sheet: the
\* three normalized columns are added, then the rows without ISO3 dropped.
load_and_normalize_data(summary, ties) ==
    LET viz == [i \in DOMAIN summary |->
                   [Drought_Norm |-> normalized(summary[i].Drought_Avg,
                                         summary[i].Population_Thousands, ties[i]),
                    Flood_Norm |-> normalized(summary[i].Flood_Avg,
                                         summary[i].Population_Thousands, ties[i]),
                    Overall_Norm |-> normalized(summary[i].Overall_Avg,
                                         summary[i].Population_Thousands, ties[i])]
                   @@ summary[i]]
    IN  SelectSeq(viz, LAMBDA r : r.ISO3 # "")

-----------------------------------------------------------------------------
(* Spec: one run of main() of the analysis script, and one run of the      *)
(* choropleth script, started at any time                                  *)

Pop(n) == [population_in_thousands |-> n]

Region0Records ==
    {APIRecord(Kenya, "Drought", FlatMonths(Num(30 * Tenth)),
               [yearly_sum |-> Num(360 * Tenth), population_in_thousands |-> Num(2500)]),
     APIRecord(Kenya, "Flood", FlatMonths(Num(65 * Tenth)), Pop(Num(2500))),
     APIRecord(Chad, "Cyclone", FlatMonths(Num(10 * Tenth)), Pop(None)),
     APIRecord(Chad, "Drought", FlatMonths(None),
               [yearly_sum |-> None, population_in_thousands |-> None])}

Region4Records ==
    {APIRecord(Egypt, "Flood", FlatMonths(Num(50 * Tenth)),
               [yearly_sum |-> Num(600 * Tenth), population_in_thousands |-> Num(10000)]),
     APIRecord(Egypt, "Wildfire", FlatMonths(Num(20 * Tenth)), Pop(Num(10000))),
     APIRecord(Iraq, "Drought", FlatMonths(Num(70 * Tenth)), Pop(Num(400))),
     APIRecord(Chad, "Flood", FlatMonths(Num(0)), Pop(Num(0)))}

FailureStatus == {404, 500}

Init ==
    /\ PipelineIdle
    /\ input = Unset
    /\ output = Unset

Raise == pc' = "raised"

\* Variant of the fetch that returns the region-0 records without asking for
\* region 4.
StepFetchRegion0_only ==
    /\ pc = "start"
    /\ \/ \E status \in FailureStatus :
             /\ requests' = Append(requests, [region |-> 0, status |-> status])
             /\ Raise
             /\ UNCHANGED <<sub_saharan_results, all_results, stages>>
       \/ \E results \in SeqUpTo(Region0Records, MaxRegionLen) :
             /\ requests' = Append(requests, [region |-> 0, status |-> 200])
             /\ sub_saharan_results' = Ret(results)
             /\ all_results' = Ret(results)
             /\ stages' = Append(stages, "fetch")
             /\ pc' = "fetched"
    /\ UNCHANGED <<filtered_results, detailed_df, summary_df,
                   excel, viz_pc, viz_df, input, output>>

\* main -> fetch_all_africa_data -> fetch_risk_scores(region=0): one GET; a
\* status other than 200 raises out of main.
StepFetchRegion0 ==
    /\ pc = "start"
    /\ \/ \E status \in FailureStatus :
             /\ requests' = Append(requests, [region |-> 0, status |-> status])
             /\ Raise
             /\ UNCHANGED sub_saharan_results
       \/ \E results \in SeqUpTo(Region0Records, MaxRegionLen) :
             /\ requests' = Append(requests, [region |-> 0, status |-> 200])
             /\ sub_saharan_results' = Ret(results)
             /\ pc' = "fetching4"
    /\ UNCHANGED <<all_results, filtered_results, detailed_df, summary_df,
                   stages, excel, viz_pc, viz_df, input, output>>

\* Variant that sends the region-4 request again after a first failure.
StepFetchRegion4_retry ==
    /\ pc = "fetching4"
    /\ \/ \E status \in FailureStatus :
             /\ requests' = Append(requests, [region |-> 4, status |-> status])
             /\ pc' = IF Len(requests) < 2 THEN "fetching4" ELSE "raised"
             /\ UNCHANGED <<all_results, stages>>
       \/ \E results \in SeqUpTo(Region4Records, MaxRegionLen) :
             /\ requests' = Append(requests, [region |-> 4, status |-> 200])
             /\ all_results' = Ret(fetch_all_africa_data(sub_saharan_results.value, results))
             /\ stages' = Append(stages, "fetch")
             /\ pc' = "fetched"
    /\ UNCHANGED <<sub_saharan_results, filtered_results, detailed_df, summary_df,
                   excel, viz_pc, viz_df, input, output>>

\* fetch_risk_scores(region=4), then the North Africa filter and the
\* concatenation; fetch_all_africa_data returns to main.
StepFetchRegion4 ==
    /\ pc = "fetching4"
    /\ \/ \E status \in FailureStatus :
             /\ requests' = Append(requests, [region |-> 4, status |-> status])
             /\ Raise
             /\ UNCHANGED <<all_results, stages>>
       \/ \E results \in SeqUpTo(Region4Records, MaxRegionLen) :
             /\ requests' = Append(requests, [region |-> 4, status |-> 200])
             /\ all_results' = Ret(fetch_all_africa_data(sub_saharan_results.value, results))
             /\ stages' = Append(stages, "fetch")
             /\ pc' = "fetched"
    /\ UNCHANGED <<sub_saharan_results, filtered_results, detailed_df, summary_df,
                   excel, viz_pc, viz_df, input, output>>

\* main step 2: filtered_results = filter_by_hazard_type(all_results)
StepFilter ==
    /\ pc = "fetched"
    /\ filtered_results' = Ret(filter_by_hazard_type(all_results.value, NoneArg))
    /\ stages' = Append(stages, "filter")
    /\ pc' = "filtered"
    /\ UNCHANGED <<requests, sub_saharan_results, all_results, detailed_df,
                   summary_df, excel, viz_pc, viz_df, input, output>>

\* main step 3: process_risk_data(filtered_results) and pd.DataFrame of it
StepProcess ==
    /\ pc = "filtered"
    /\ \E ties \in [DOMAIN filtered_results.value -> TieChoices] :
          LET processed_data == process_risk_data(filtered_results.value, ties)
          IN  IF processed_data.raised
              THEN Raise /\ UNCHANGED <<detailed_df, stages>>
              ELSE /\ detailed_df' = Ret(DataFrame(processed_data.value))
                   /\ stages' = Append(stages, "process")
                   /\ pc' = "processed"
    /\ UNCHANGED <<requests, sub_saharan_results, all_results, filtered_results,
                   summary_df, excel, viz_pc, viz_df, input, output>>

\* main step 4: create_summary_by_country(detailed_df).  The DataFrame of an
\* empty list has no columns and df['Country'] raises KeyError.
StepSummary ==
    /\ pc = "processed"
    /\ IF detailed_df.value = <<>>
       THEN Raise /\ UNCHANGED <<summary_df, stages>>
       ELSE /\ summary_df' = Ret(create_summary_by_country(detailed_df.value))
            /\ stages' = Append(stages, "summary")
            /\ pc' = "summarized"
    /\ UNCHANGED <<requests, sub_saharan_results, all_results, filtered_results,
                   detailed_df, excel, viz_pc, viz_df, input, output>>

\* Variant of main that writes the workbook before the summary is built.
StepExport_before_summary ==
    /\ pc = "processed"
    /\ ~excel.exists
    /\ excel' = [exists |-> TRUE, Country_Summary |-> <<>>,
                 Detailed_Monthly |-> detailed_df.value]
    /\ stages' = Append(stages, "export")
    /\ UNCHANGED <<pc, requests, sub_saharan_results, all_results, filtered_results,
                   detailed_df, summary_df, viz_pc, viz_df, input, output>>

\* main step 5: export_to_excel writes the workbook
StepExport ==
    /\ pc = "summarized"
    /\ excel' = [exists |-> TRUE, Country_Summary |-> summary_df.value,
                 Detailed_Monthly |-> detailed_df.value]
    /\ stages' = Append(stages, "export")
    /\ pc' = "exported"
    /\ UNCHANGED <<requests, sub_saharan_results, all_results, filtered_results,
                   detailed_df, summary_df, viz_pc, viz_df, input, output>>

\* main prints the statistics and returns
StepReport ==
    /\ pc = "exported"
    /\ pc' = "done"
    /\ UNCHANGED <<requests, sub_saharan_results, all_results, filtered_results,
                   detailed_df, summary_df, stages, excel, viz_pc, viz_df,
                   input, output>>

\* choropleth script: load_geojson()
VizLoadGeojson ==
    /\ viz_pc = "start"
    /\ viz_pc' = "geojson"
    /\ UNCHANGED <<mainVars, stages, excel, viz_df, input, output>>

\* choropleth script: load_and_normalize_data(); pd.read_excel raises
\* FileNotFoundError when the workbook does not exist.
VizLoadAndNormalize ==
    /\ viz_pc = "geojson"
    /\ IF ~excel.exists
       THEN viz_pc' = "raised" /\ UNCHANGED <<viz_df, stages>>
       ELSE /\ \E ties \in [DOMAIN excel.Country_Summary -> TieChoices] :
                  viz_df' = Ret(load_and_normalize_data(excel.Country_Summary, ties))
            /\ stages' = Append(stages, "normalize")
            /\ viz_pc' = "loaded"
    /\ UNCHANGED <<mainVars, excel, input, output>>

\* choropleth script: the statistics and the four maps
VizRenderMaps ==
    /\ viz_pc = "loaded"
    /\ viz_pc' = "done"
    /\ UNCHANGED <<mainVars, stages, excel, viz_df, input, output>>

Next ==
    \/ StepFetchRegion0
    \/ StepFetchRegion4
    \/ StepFilter
    \/ StepProcess
    \/ StepSummary
    \/ StepExport
    \/ StepReport
    \/ VizLoadGeojson
    \/ VizLoadAndNormalize
    \/ VizRenderMaps

Spec == Init /\ [][Next]_vars

\* The stages of the pipeline, in order
StageOrder == <<"fetch", "filter", "process", "summary", "export", "normalize">>

C8_NoRetry ==
    /\ \A i \in DOMAIN requests :
          requests[i].status # 200 =>
             /\ i = Len(requests)
             /\ pc = "raised"
             /\ ~all_results.set
             /\ ~filtered_results.set
             /\ ~detailed_df.set
             /\ ~summary_df.set
             /\ ~excel.exists
    /\ \A i, j \in DOMAIN requests : i # j => requests[i].region # requests[j].region

\* C8 witness: the region-4 request failed after the region-0 request
\* succeeded, and main has ended.
C8_Witness ==
    /\ Len(requests) = 2
    /\ requests[1].status = 200
    /\ requests[2] = [region |-> 4, status |-> 500]
    /\ pc = "raised"

\* C9 as stated: a run of main that completes has issued exactly one request
\* to the risk-score API.
C9_SingleRequest == (pc = "done") => Len(requests) = 1

\* C9 amended: the fetch is one unconditional GET per region, region 0 and
\* then region 4: a run never issues more than these two requests, has
\* issued exactly one while it waits for region 4, and has issued both, each
\* answered 200, once it is past the fetch.
C9_OneRequestPerRegion ==
    /\ Len(requests) <= 2
    /\ \A i \in DOMAIN requests : requests[i].region = <<0, 4>>[i]
    /\ (pc = "start") => requests = <<>>
    /\ (pc = "fetching4") => Len(requests) = 1
    /\ (pc \in {"fetched", "filtered", "processed", "summarized", "exported", "done"}) =>
          /\ Len(requests) = 2
          /\ \A i \in DOMAIN requests : requests[i].status = 200

\* C9 witness: main has completed after two requests.
C9_Witness ==
    /\ pc = "done"
    /\ Len(requests) = 2
    /\ requests[1].region = 0
    /\ requests[2].region = 4

-----------------------------------------------------------------------------
(* SpecFetchAll: the combination step of fetch_all_africa_data applied to  *)
(* the two lists the two requests returned                                 *)

InitFetchAll ==
    /\ PipelineIdle
    /\ input \in {[sub_saharan_results |-> a, north_africa_results |-> b] :
                     a \in SeqUpTo(Region0Records, MaxRegionLen),
                     b \in SeqUpTo(Region4Records, MaxRegionLen)}
    /\ output = Unset

CallFetchAll ==
    /\ ~output.set
    /\ output' = Ret(fetch_all_africa_data(input.sub_saharan_results,
                                           input.north_africa_results))
    /\ UNCHANGED <<input, pipelineVars>>

NextFetchAll == CallFetchAll

SpecFetchAll == InitFetchAll /\ [][NextFetchAll]_vars

\* The indices of the region-4 records of Morocco, Tunisia, Algeria, Libya
\* and Egypt.
C11_Matching ==
    {i \in DOMAIN input.north_africa_results :
        input.north_africa_results[i].country_details.name
            \in {"Morocco", "Tunisia", "Algeria", "Libya", "Egypt"}}

\* The k-th smallest of them.
C11_Nth(k) == CHOOSE i \in C11_Matching : Cardinality({j \in C11_Matching : j < i}) = k - 1

\* C11: fetch_all_africa_data returns every record of region 0, unfiltered
\* and in order, followed by exactly the region-4 records whose country is
\* Morocco, Tunisia, Algeria, Libya or Egypt, in order; no region-4 record of
\* another country is in the result.
C11_RegionZeroThenNorthAfrica ==
    output.set =>
        LET n == Len(input.sub_saharan_results)
        IN  /\ Len(output.value) = n + Cardinality(C11_Matching)
            /\ \A i \in 1..n : output.value[i] = input.sub_saharan_results[i]
            /\ \A k \in 1..Cardinality(C11_Matching) :
                  output.value[n + k] = input.north_africa_results[C11_Nth(k)]

\* C11 witness: region 0 returned a Chad and a Kenya record, which are kept,
\* and region 4 a Chad record, which is dropped, and an Egypt record, which
\* is kept.
C11_Witness ==
    /\ output.set
    /\ Len(input.sub_saharan_results) = 2
    /\ input.sub_saharan_results[1].country_details.name = "Chad"
    /\ input.sub_saharan_results[2].country_details.name = "Kenya"
    /\ Len(input.north_africa_results) = 2
    /\ input.north_africa_results[1].country_details.name = "Chad"
    /\ input.north_africa_results[2].country_details.name = "Egypt"
    /\ output.value = input.sub_saharan_results \o <<input.north_africa_results[2]>>

-----------------------------------------------------------------------------
(* SpecSummary: create_summary_by_country applied to one detailed table,   *)
(* the DataFrame of the processed records of one list of API records       *)

YearlySum(y) == [yearly_sum |-> y]

\* Kenya has two Drought records, Chad a Drought record of average 5.99
\* (yearly sum 71.88) and a Flood record of average 0.
SummaryRecords ==
    {APIRecord(Kenya, "Drought", FlatMonths(Num(30 * Tenth)), Pop(Num(2500))),
     APIRecord(Kenya, "Drought", FlatMonths(Num(65 * Tenth)), Pop(Num(400))),
     APIRecord(Kenya, "Flood", FlatMonths(Num(60 * Tenth)), YearlySum(Num(7188 * Hundredth))),
     APIRecord(Chad, "Drought", FlatMonths(Num(60 * Tenth)), YearlySum(Num(7188 * Hundredth))),
     APIRecord(Chad, "Wildfire", FlatMonths(Num(70 * Tenth)), Pop(None)),
     APIRecord(Chad, "Flood", FlatMonths(Num(0)), <<>>),
     APIRecord(Egypt, "Flood", FlatMonths(Num(50 * Tenth)), Pop(Num(10000))),
     APIRecord(Egypt, "Wildfire", FlatMonths(Num(20 * Tenth)), Pop(Num(10000)))}

\* detailed_df of main for the filtered records r
DetailedOf(r) == DataFrame(process_risk_data(r, [i \in DOMAIN r |-> "down"]).value)

InitSummary ==
    /\ PipelineIdle
    /\ input \in {[df |-> DetailedOf(r)] : r \in SeqUpTo(SummaryRecords, MaxSummaryLen)}
    /\ output = Unset

\* df['Country'] raises KeyError on the DataFrame of an empty list, which
\* has no columns.
CallSummary ==
    /\ ~output.set
    /\ output' = Ret(IF input.df = <<>> THEN Raised
                     ELSE Returned(create_summary_by_country(input.df)))
    /\ UNCHANGED <<input, pipelineVars>>

NextSummary == CallSummary

SpecSummary == InitSummary /\ [][NextSummary]_vars

\* create_summary_by_country has returned a table
Summarized == output.set /\ ~output.value.raised

\* The place of a country name in ascending order of the names
C12_Rank(name) ==
    CASE name = "Chad" -> 1 [] name = "Egypt" -> 2 [] name = "Iraq" -> 3
      [] name = "Kenya" -> 4

C12_HazardColumns ==
    {"Drought_Sum", "Drought_Avg", "Drought_Peak", "Drought_GO_Num",
     "Drought_GO_Cat", "Drought_INFORM",
     "Flood_Sum", "Flood_Avg", "Flood_Peak", "Flood_GO_Num",
     "Flood_GO_Cat", "Flood_INFORM",
     "Wildfire_Sum", "Wildfire_Avg", "Wildfire_Peak", "Wildfire_GO_Num",
     "Wildfire_GO_Cat", "Wildfire_INFORM"}

\* C12: create_summary_by_country produces exactly one row per distinct
\* country name of the detailed table, the rows in ascending order of the
\* country name, each row carrying the Sum, Avg, Peak, GO_Num, GO_Cat and
\* INFORM columns of Drought, Flood and Wildfire.
C12_OneRowPerCountry ==
    Summarized =>
        LET rows == output.value.value
            names == {input.df[i].Country : i \in DOMAIN input.df}
        IN  /\ Len(rows) = Cardinality(names)
            /\ {rows[k].Country : k \in DOMAIN rows} = names
            /\ \A k, l \in DOMAIN rows :
                  k < l => C12_Rank(rows[k].Country) < C12_Rank(rows[l].Country)
            /\ \A k \in DOMAIN rows : C12_HazardColumns \subseteq DOMAIN rows[k]

\* C12 witness: a detailed table with the rows Kenya, Chad, Kenya gave the
\* two rows Chad, Kenya.
C12_Witness ==
    /\ Summarized
    /\ Len(input.df) = 3
    /\ input.df[1].Country = "Kenya"
    /\ input.df[2].Country = "Chad"
    /\ input.df[3].Country = "Kenya"
    /\ Len(output.value.value) = 2
    /\ output.value.value[1].Country = "Chad"
    /\ output.value.value[2].Country = "Kenya"

\* C14: in every row of the summary, the overall average is the sum of the
\* row's Drought_Avg, Flood_Avg and Wildfire_Avg divided by 3 (an absent
\* hazard has Avg 0 and the divisor stays 3); Overall_Avg stores it rounded
\* to two decimals, and Overall_GO_Num, Overall_GO_Cat and Overall_INFORM are
\* the categories of the unrounded value.
C14_OverallAverage ==
    Summarized =>
        \A k \in DOMAIN output.value.value :
            LET row == output.value.value[k]
                sum == row.Drought_Avg + row.Flood_Avg + row.Wildfire_Avg
                rows_of(h) == {i \in DOMAIN input.df :
                                  /\ input.df[i].Country = row.Country
                                  /\ input.df[i].Hazard_Type = h}
            IN  /\ sum % 3 = 0
                /\ row.Overall_Avg \in Roundings(sum \div 3)
                /\ <<row.Overall_GO_Num, row.Overall_GO_Cat>> =
                      categorize_go_platform(Num(sum \div 3))
                /\ row.Overall_INFORM = categorize_inform(Num(sum \div 3))
                /\ (rows_of("Drought") = {}) => row.Drought_Avg = 0
                /\ (rows_of("Flood") = {}) => row.Flood_Avg = 0
                /\ (rows_of("Wildfire") = {}) => row.Wildfire_Avg = 0

\* C14 witness: Chad has only a Drought row, of average 5.99: its overall
\* average 1.9966... is stored as 2.0 and classified Very Low.
C14_Witness ==
    /\ Summarized
    /\ Len(output.value.value) = 1
    /\ output.value.value[1].Country = "Chad"
    /\ output.value.value[1].Drought_Avg = 599 * Hundredth
    /\ output.value.value[1].Flood_GO_Cat = "No Data"
    /\ output.value.value[1].Wildfire_Avg = 0
    /\ output.value.value[1].Overall_Avg = 2 * Unit
    /\ output.value.value[1].Overall_GO_Cat = "Very Low"
    /\ output.value.value[1].Overall_INFORM = "Very Low"

-----------------------------------------------------------------------------
(* SpecNormalize: load_and_normalize_data applied to the Country_Summary   *)
(* sheet main exports for one list of filtered API records                 *)

\* The Country_Summary sheet for the filtered records r: to_excel and
\* read_excel keep a number, a NaN (an empty cell) and a non-empty string.
CountrySummaryOf(r) == create_summary_by_country(DetailedOf(r))

InitNormalize ==
    /\ PipelineIdle
    /\ input \in {[summary |-> CountrySummaryOf(r)] :
                     r \in SeqUpTo(SummaryRecords, MaxSummaryLen) \ {<<>>}}
    /\ output = Unset

CallNormalize ==
    /\ ~output.set
    /\ \E ties \in [DOMAIN input.summary -> TieChoices] :
          output' = Ret(load_and_normalize_data(input.summary, ties))
    /\ UNCHANGED <<input, pipelineVars>>

NextNormalize == CallNormalize

SpecNormalize == InitNormalize /\ [][NextNormalize]_vars

\* norm, in ten-thousandths, is avg / sqrt(pop) rounded to four decimals:
\* a finite number within half a ten-thousandth of the quotient.
C13_IsNormalized(norm, avg, pop) ==
    /\ norm.kind = "num"
    /\ pop.kind = "num"
    /\ \E root \in 1..pop.val :
          /\ root * root = pop.val
          /\ 2 * (norm.val * Unit * root - avg * 10000) <= Unit * root
          /\ 2 * (avg * 10000 - norm.val * Unit * root) <= Unit * root

\* C13: in every row load_and_normalize_data keeps, Drought_Norm, Flood_Norm
\* and Overall_Norm are the row's Drought, Flood and Overall average divided
\* by the square root of Population_Thousands, rounded to four decimals, and
\* each is a finite number.
C13_NormalizedAndFinite ==
    output.set =>
        \A i \in DOMAIN output.value :
            LET row == output.value[i]
            IN  /\ C13_IsNormalized(row.Drought_Norm, row.Drought_Avg, row.Population_Thousands)
                /\ C13_IsNormalized(row.Flood_Norm, row.Flood_Avg, row.Population_Thousands)
                /\ C13_IsNormalized(row.Overall_Norm, row.Overall_Avg, row.Population_Thousands)

\* The part of C13 that the code keeps: the three scores of a row whose
\* population is a positive number.
C13_WherePopulationPositive ==
    output.set =>
        \A i \in DOMAIN output.value :
            LET row == output.value[i]
            IN  (row.Population_Thousands.kind = "num" /\ row.Population_Thousands.val > 0) =>
                /\ C13_IsNormalized(row.Drought_Norm, row.Drought_Avg, row.Population_Thousands)
                /\ C13_IsNormalized(row.Flood_Norm, row.Flood_Avg, row.Population_Thousands)
                /\ C13_IsNormalized(row.Overall_Norm, row.Overall_Avg, row.Population_Thousands)

\* Rows with a positive population are normalized: Kenya, population 2500
\* thousand and Drought average 3.0, has Drought_Norm 0.0600.
C13_PositiveReached ==
    /\ output.set
    /\ \E i \in DOMAIN output.value :
          /\ output.value[i].Population_Thousands = Num(2500)
          /\ output.value[i].Drought_Avg = 3 * Unit
          /\ output.value[i].Drought_Norm = Num(600)

-----------------------------------------------------------------------------
(* SpecProcessList: process_risk_data called, up to MaxCalls times, on one *)
(* list of several API records; output is the list of what the calls gave  *)

\* A Kenya record, a Chad record whose average 0.025 is halfway between two
\* hundredths, an Egypt record with January missing and the other months
\* None but December, a record whose yearly_sum is null, and a Chad record
\* with yearly_sum 23.95.
ListRecords ==
    {APIRecord(Kenya, "Drought", FlatMonths(Num(30 * Tenth)), Pop(Num(2500))),
     APIRecord(Chad, "Flood", MonthsWith(Num(0), 1, Num(3 * Tenth), {}), <<>>),
     APIRecord(Egypt, "Wildfire", MonthsWith(None, 12, Num(65 * Tenth), {"january"}),
               Pop(Num(10000))),
     APIRecord(Kenya, "Flood", FlatMonths(Num(10 * Tenth)), YearlySum(None)),
     APIRecord(Chad, "Drought", FlatMonths(Num(20 * Tenth)), YearlySum(Num(2395 * Hundredth)))}

InitProcessList ==
    /\ PipelineIdle
    /\ input \in {[results |-> r] : r \in SeqUpTo(ListRecords, MaxListLen)}
    /\ output = <<>>

CallProcessList ==
    /\ Len(output) < MaxCalls
    /\ \E ties \in [DOMAIN input.results -> TieChoices] :
          output' = Append(output, process_risk_data(input.results, ties))
    /\ UNCHANGED <<input, pipelineVars>>

NextProcessList == CallProcessList

SpecProcessList == InitProcessList /\ [][NextProcessList]_vars

\* What a call gives for the record alone: the processed record, up to the
\* rounding of a halfway average.
C15_Alone(record) ==
    {process_risk_data(<<record>>, <<tie>>).value[1] : tie \in TieChoices}

\* Every call so far that returned gave one output record per input record,
\* in the same order, output record i being what the record i gives alone.
C15_PerRecord ==
    \A c \in DOMAIN output :
        ~output[c].raised =>
            /\ Len(output[c].value) = Len(input.results)
            /\ \A i \in DOMAIN input.results :
                  /\ output[c].value[i].Country = input.results[i].country_details.name
                  /\ output[c].value[i].Hazard_Type = input.results[i].hazard_type_display
                  /\ output[c].value[i] \in C15_Alone(input.results[i])

====
